---- MODULE Spec2Model ----
(***************************************************************************)
(* Canvas Assignment Tracker: the fetch (DataFetcher.run), the publication *)
(* of its result (CanvasApp.on_data_fetched) and the notification loop     *)
(* (CanvasApp.check_due_assignments).                                      *)
(*                                                                         *)
(* Time is counted in whole hours since the process started.  A Python     *)
(* dict is a sequence of [key, value] entries in insertion order.  An      *)
(* optional value (Python None or a value) is <<>> or <<v>>.  The remote   *)
(* lists courses with pairwise distinct names.                             *)
(***************************************************************************)
EXTENDS Integers, Sequences, FiniteSets, Bags, TLC

\* ------------------------------------------------------------------ bounds
MaxTime == 1
MaxAssignments == 2

\* ------------------------------------------------------- program constants
LookbackDays == 150
LookaheadDays == 90
SleepSeconds == 3600
SecondsPerHour == 3600
LookbackHours == LookbackDays * 24
LookaheadHours == LookaheadDays * 24
SleepHours == SleepSeconds \div SecondsPerHour

\* --------------------------------------------------------- optional values
NoneVal == <<>>
Some(v) == <<v>>
IsNone(o) == o = <<>>
Val(o) == o[1]

\* ------------------------------------------------------------ Python dicts
EmptyDict == <<>>
DictKeys(d) == {d[i].key : i \in 1..Len(d)}
DictGet(d, k) == d[CHOOSE i \in 1..Len(d) : d[i].key = k].value
DictSet(d, k, v) ==
    IF k \in DictKeys(d)
    THEN [i \in 1..Len(d) |-> IF d[i].key = k THEN [key |-> k, value |-> v] ELSE d[i]]
    ELSE Append(d, [key |-> k, value |-> v])

\* ---------------------------------------------------------------- fetcher
\* The faults of the remote during one fetch: kind/at is the unhandled failure
\* (none; "setup": listing the courses or getting the user id; "parse_course":
\* a course date that does not parse; "list_assignments": listing a course's
\* assignments or parsing a due date), sub the (course, assignment) positions
\* whose submission lookup raises, grade the courses whose enrollment lookup
\* raises.
NoFaults == [kind |-> "none", at |-> 0, sub |-> {}, grade |-> {}]

\* lines 61-64: the course is skipped
CourseExcludedInclusive(course, now) ==
    \/ ~IsNone(course.start_at) /\ Val(course.start_at) < now - LookbackHours
    \/ ~IsNone(course.end_at) /\ Val(course.end_at) <= now
CourseExcluded(course, now) ==
    \/ ~IsNone(course.start_at) /\ Val(course.start_at) < now - LookbackHours
    \/ ~IsNone(course.end_at) /\ Val(course.end_at) < now

\* lines 71-73: the assignment has a due date inside [now, now + 90 days]
InWindowExclusive(assignment, now) ==
    /\ ~IsNone(assignment.due_at)
    /\ now <= Val(assignment.due_at)
    /\ Val(assignment.due_at) < now + LookaheadHours
InWindowUnsubmitted(assignment, now) ==
    /\ ~IsNone(assignment.due_at)
    /\ now <= Val(assignment.due_at)
    /\ Val(assignment.due_at) <= now + LookaheadHours
    /\ ~assignment.submitted_at
InWindow(assignment, now) ==
    /\ ~IsNone(assignment.due_at)
    /\ now <= Val(assignment.due_at)
    /\ Val(assignment.due_at) <= now + LookaheadHours

\* lines 76-80: the submission lookup, False when it raises
SubmittedUnlessKnown(assignment, failed) ==
    IF failed THEN TRUE ELSE assignment.submitted_at
Submitted(assignment, failed) ==
    IF failed THEN FALSE ELSE assignment.submitted_at

\* lines 81-90: the record appended for an in-window assignment
AssignmentRecord(course, assignment, failed) ==
    [course |-> course.name,
     name |-> assignment.name,
     due_at |-> Val(assignment.due_at),
     submitted |-> Submitted(assignment, failed),
     points |-> IF IsNone(assignment.points_possible) THEN 0
                ELSE Val(assignment.points_possible)]

\* lines 68-90: the loop over a course's assignments, from position j on
RECURSIVE AssignmentListRelative(_, _, _, _, _)
AssignmentListRelative(course, i, j, now, sub) ==
    IF j > Len(course.assignments) THEN <<>>
    ELSE LET assignment == course.assignments[j]
             rest == AssignmentListRelative(course, i, j + 1, now, sub)
             record == AssignmentRecord(course, assignment, <<i, j>> \in sub)
         IN  IF InWindow(assignment, now)
             THEN <<[record EXCEPT !.due_at = @ - now]>> \o rest
             ELSE rest
RECURSIVE AssignmentList(_, _, _, _, _)
AssignmentList(course, i, j, now, sub) ==
    IF j > Len(course.assignments) THEN <<>>
    ELSE LET assignment == course.assignments[j]
             rest == AssignmentList(course, i, j + 1, now, sub)
         IN  IF InWindow(assignment, now)
             THEN <<AssignmentRecord(course, assignment, <<i, j>> \in sub)>> \o rest
             ELSE rest

\* lines 69, 74: has_recent_assignments after the loop
HasRecentAssignmentsAnyDue(course, now) ==
    \E j \in 1..Len(course.assignments) : ~IsNone(course.assignments[j].due_at)
HasRecentAssignments(course, now) ==
    \E j \in 1..Len(course.assignments) : InWindow(course.assignments[j], now)

\* lines 97-105: the grade recorded for a course that is kept
SetGradeUnlessFailed(gbc, course, failed) ==
    IF failed \/ course.enrollment = "unenrolled" THEN gbc
    ELSE IF course.enrollment = "missing" THEN DictSet(gbc, course.name, "N/A")
    ELSE DictSet(gbc, course.name, course.enrollment)
SetGrade(gbc, course, failed) ==
    IF failed THEN DictSet(gbc, course.name, "N/A")
    ELSE IF course.enrollment = "unenrolled" THEN gbc
    ELSE IF course.enrollment = "missing" THEN DictSet(gbc, course.name, "N/A")
    ELSE DictSet(gbc, course.name, course.enrollment)

\* lines 108-110: the handler of an unhandled failure
OnExceptionPartial(abc, gbc) ==
    [failed |-> TRUE, assignments |-> abc, grades |-> gbc]
OnException(abc, gbc) ==
    [failed |-> TRUE, assignments |-> EmptyDict, grades |-> EmptyDict]

\* lines 50-107: the loop over the courses, from position i on, and the emit
RECURSIVE RunCourses(_, _, _, _, _, _)
RunCourses(courses, i, now, faults, abc, gbc) ==
    IF i > Len(courses)
    THEN [failed |-> FALSE, assignments |-> abc, grades |-> gbc]
    ELSE LET course == courses[i] IN
         IF /\ faults.kind = "parse_course" /\ faults.at = i
            /\ (~IsNone(course.start_at) \/ ~IsNone(course.end_at))
         THEN OnException(abc, gbc)
         ELSE IF CourseExcluded(course, now)
         THEN RunCourses(courses, i + 1, now, faults, abc, gbc)
         ELSE IF faults.kind = "list_assignments" /\ faults.at = i
         THEN OnException(abc, gbc)
         ELSE LET assignment_list == AssignmentList(course, i, 1, now, faults.sub) IN
              IF assignment_list = <<>> /\ ~HasRecentAssignments(course, now)
              THEN RunCourses(courses, i + 1, now, faults, abc, gbc)
              ELSE RunCourses(courses, i + 1, now, faults,
                              DictSet(abc, course.name, assignment_list),
                              SetGrade(gbc, course, i \in faults.grade))

\* lines 39-110: DataFetcher.run
Run(courses, now, faults) ==
    IF faults.kind = "setup"
    THEN OnException(EmptyDict, EmptyDict)
    ELSE RunCourses(courses, 1, now, faults, EmptyDict, EmptyDict)

\* ------------------------------------------------------- notification scan
\* lines 338, 341: the dedup key of (course, assignment, threshold)
Key(course_name, name, notify_hours) ==
    course_name \o "_" \o name \o "_" \o ToString(notify_hours)

\* line 336-337: hours_remaining of an assignment record at time now
HoursRemaining(assignment, now) == assignment.due_at - now

\* line 340: the threshold test
DueWithinAnyTime(hours_remaining, notify_hours) ==
    hours_remaining <= notify_hours
DueWithin(hours_remaining, notify_hours) ==
    0 < hours_remaining /\ hours_remaining <= notify_hours

\* line 342: the dedup test
AlreadyNotified(key, notified) == key \in notified

\* line 334: the submitted test
SkipSubmitted(assignment) == assignment.submitted

\* The state of one scan: the notifications sent so far (course, name,
\* threshold, hours remaining, and the position of the assignment in the map)
\* and the set notified_assignments.
NotifyEvent(assignment, pos, now, notify_hours) ==
    [course |-> assignment.course, name |-> assignment.name, h |-> notify_hours,
     hours |-> HoursRemaining(assignment, now), pos |-> pos]

\* lines 339-344: the loop over notification_times, on the thresholds left
RECURSIVE NotifyTimesExclusive(_, _, _, _, _, _)
NotifyTimesExclusive(course_name, assignment, pos, now, times, st) ==
    IF times = <<>> THEN st
    ELSE LET notify_hours == Head(times)
             key == Key(course_name, assignment.name, notify_hours)
         IN  IF /\ DueWithin(HoursRemaining(assignment, now), notify_hours)
                /\ ~AlreadyNotified(key, st.notified)
             THEN [events |-> Append(st.events,
                                     NotifyEvent(assignment, pos, now, notify_hours)),
                   notified |-> st.notified \cup {key}]
             ELSE NotifyTimesExclusive(course_name, assignment, pos, now, Tail(times), st)
RECURSIVE NotifyTimes(_, _, _, _, _, _)
NotifyTimes(course_name, assignment, pos, now, times, st) ==
    IF times = <<>> THEN st
    ELSE LET notify_hours == Head(times)
             hours_remaining == HoursRemaining(assignment, now)
             key == Key(course_name, assignment.name, notify_hours)
             fires == /\ DueWithin(hours_remaining, notify_hours)
                      /\ ~AlreadyNotified(key, st.notified)
             event == NotifyEvent(assignment, pos, now, notify_hours)
         IN  NotifyTimes(course_name, assignment, pos, now, Tail(times),
                 IF fires
                 THEN [events |-> Append(st.events, event),
                       notified |-> st.notified \cup {key}]
                 ELSE st)

\* lines 333-344: the loop over one course's assignments, from position j on
RECURSIVE ScanAssignments(_, _, _, _, _, _, _)
ScanAssignments(course_name, assignments, i, j, now, times, st) ==
    IF j > Len(assignments) THEN st
    ELSE ScanAssignments(course_name, assignments, i, j + 1, now, times,
             IF SkipSubmitted(assignments[j]) THEN st
             ELSE NotifyTimes(course_name, assignments[j], <<i, j>>, now, times, st))

\* lines 332-344: one pass over the assignments map, from entry i on
RECURSIVE ScanCourses(_, _, _, _, _)
ScanCourses(abc, i, now, times, st) ==
    IF i > Len(abc) THEN st
    ELSE ScanCourses(abc, i + 1, now, times,
             ScanAssignments(abc[i].key, abc[i].value, i, 1, now, times, st))

Scan(abc, now, times, notified) ==
    ScanCourses(abc, 1, now, times, [events |-> <<>>, notified |-> notified])

\* ------------------------------------------------------------------ state
VARIABLES
    now,                    \* the clock, in hours
    remote,                 \* the courses the remote lists, in its order
    notification_times,     \* CanvasApp.notification_times
    assignments_by_course,  \* CanvasApp.assignments_by_course
    grades_by_course,       \* CanvasApp.grades_by_course
    published,              \* the fetch whose maps the application holds (0: none)
                            \* with its inputs, and the failed fetches published
                            \* in a row
    fetchers,               \* the DataFetcher threads that are running
    next_fetcher,           \* the number of the next DataFetcher
    signals,                \* data_fetched signals queued for the main thread,
                            \* each with the inputs of the fetch that emitted it
    emitted,                \* the DataFetcher of every data_fetched emitted so
                            \* far, a bag
    loops,                  \* the check_due_assignments threads
    sent,                   \* the notifications shown so far, a bag
    last_scan               \* the inputs and the result of the latest scan

vars == <<now, remote, notification_times, assignments_by_course, grades_by_course,
          published, fetchers, next_fetcher, signals, emitted, loops, sent,
          last_scan>>

\* ------------------------------------------------------------------ inputs
CourseNames == <<"A", "A_B">>
AssignmentNames == {"X", "B_X"}

Assignment(name, due_at, submitted_at, points_possible) ==
    [name |-> name, due_at |-> due_at, submitted_at |-> submitted_at,
     points_possible |-> points_possible]

Course(name, start_at, end_at, assignments, enrollment) ==
    [name |-> name, start_at |-> start_at, end_at |-> end_at,
     assignments |-> assignments, enrollment |-> enrollment]

SeqsUpTo(S, n) == UNION {[1..m -> S] : m \in 0..n}

\* The remotes of the scheduler: one or two open-ended courses with one or two
\* assignments in all, due in a few hours and not submitted yet.  Two
\* assignments of a course may have the same name, and "A" with "B_X" reads
\* like "A_B" with "X".
SchedDues == {1, 5, 13}
SchedAssignments(names) ==
    {Assignment(n, Some(d), FALSE, Some(10)) : n \in names, d \in SchedDues}
SchedCourse(k, assignments) == Course(CourseNames[k], NoneVal, NoneVal, assignments, "90")
SchedSecond(names) == {Assignment(n, Some(5), FALSE, Some(10)) : n \in names}
SchedRemotes ==
    {<<SchedCourse(1, <<a>>)>> : a \in SchedAssignments({"X"})}
    \cup {<<SchedCourse(1, <<a, b>>)>> :
              a \in SchedAssignments({"X"}), b \in SchedSecond(AssignmentNames)}
    \cup {<<SchedCourse(1, <<a>>), SchedCourse(2, <<b>>)>> :
              a \in SchedAssignments(AssignmentNames), b \in SchedSecond({"X"})}
ThresholdChoices == {<<12>>, <<6, 12>>}
SchedFaults == {NoFaults, [NoFaults EXCEPT !.kind = "setup"]}

\* The remotes of the fetcher: a course with any dates, enrollment and up to
\* MaxAssignments assignments, alone or next to one of a few plain courses.
FetchAssignments ==
    {Assignment("X", NoneVal, FALSE, Some(10)),
     Assignment("X", Some(LookaheadHours + 1), FALSE, Some(10))}
    \cup {Assignment("X", Some(10), s, Some(10)) : s \in BOOLEAN}
    \cup {Assignment("B_X", Some(0), s, NoneVal) : s \in BOOLEAN}
FetchStarts == {NoneVal, Some(0 - LookbackHours)}
FetchEnds == {NoneVal, Some(0)}
Enrollments == {"90", "missing", "unenrolled"}
RichCourses(k) ==
    {Course(CourseNames[k], s, e, as, g) :
        s \in FetchStarts, e \in FetchEnds,
        as \in SeqsUpTo(FetchAssignments, MaxAssignments), g \in Enrollments}
PlainCourses(k) ==
    {Course(CourseNames[k], NoneVal, NoneVal, <<Assignment("X", Some(10), FALSE, Some(10))>>, "90"),
     Course(CourseNames[k], NoneVal, NoneVal, <<>>, "90"),
     Course(CourseNames[k], NoneVal, Some(0 - 1), <<Assignment("X", Some(10), FALSE, Some(10))>>, "90")}
FetchRemotes ==
    {<<c>> : c \in RichCourses(1)}
    \cup {<<c, d>> : c \in RichCourses(1), d \in PlainCourses(2)}
    \cup {<<c, d>> : c \in PlainCourses(1), d \in RichCourses(2)}

\* The faults a fetch of the given courses can meet: one unhandled failure, or
\* any submission and enrollment lookups raising.
Positions(courses) ==
    {<<i, j>> : i \in 1..Len(courses), j \in 1..MaxAssignments} \cap
    {p \in (1..Len(courses)) \X (1..MaxAssignments) : p[2] <= Len(courses[p[1]].assignments)}
FetchFaults(courses) ==
    {[NoFaults EXCEPT !.kind = "setup"]}
    \cup {[NoFaults EXCEPT !.kind = k, !.at = i] :
              k \in {"parse_course", "list_assignments"}, i \in 1..Len(courses)}
    \cup {[NoFaults EXCEPT !.sub = sub, !.grade = grade] :
              sub \in SUBSET Positions(courses), grade \in SUBSET (1..Len(courses))}

NoScan == [loop |-> 0, cycle |-> 0, fetch |-> 0, published |-> 0, abc |-> EmptyDict,
           now |-> 0, times |-> <<>>, before |-> {}, events |-> <<>>]

\* lines 113-122: CanvasApp.__init__, which ends with start_data_thread()
InitApp ==
    /\ now = 0
    /\ assignments_by_course = EmptyDict
    /\ grades_by_course = EmptyDict
    /\ published = [fetcher |-> 0, failures |-> 0, courses |-> <<>>, now |-> 0,
                    faults |-> NoFaults]
    /\ fetchers = {1}
    /\ next_fetcher = 2
    /\ signals = <<>>
    /\ emitted = EmptyBag
    /\ loops = <<>>
    /\ sent = EmptyBag
    /\ last_scan = NoScan

Init ==
    /\ remote \in SchedRemotes
    /\ notification_times \in ThresholdChoices
    /\ InitApp

\* ----------------------------------------------------------------- actions
\* An hour passes.  Waking up, a scan and the handling of a queued signal take
\* far less than an hour; a fetch may take any time.
Tick ==
    /\ now < MaxTime
    /\ signals = <<>>
    /\ \A t \in 1..Len(loops) : loops[t].pc = "sleep" /\ loops[t].wake > now
    /\ now' = now + 1
    /\ UNCHANGED <<emitted, remote, notification_times, assignments_by_course, grades_by_course,
                   published, fetchers, next_fetcher, signals, loops, sent,
                   last_scan>>

\* The user submits assignment j of course i on the remote.
Submit(i, j) ==
    /\ ~remote[i].assignments[j].submitted_at
    /\ remote' = [remote EXCEPT ![i].assignments[j].submitted_at = TRUE]
    /\ UNCHANGED <<emitted, now, notification_times, assignments_by_course, grades_by_course,
                   published, fetchers, next_fetcher, signals, loops, sent,
                   last_scan>>

\* lines 39-110: a DataFetcher thread runs and emits data_fetched
DataFetcherRunSilentOnFailure(f, faults) ==
    /\ f \in fetchers
    /\ LET r == Run(remote, now, faults) IN
       IF r.failed
       THEN UNCHANGED <<signals, emitted>>
       ELSE /\ signals' = Append(signals, [fetcher |-> f, courses |-> remote, now |-> now,
                                           faults |-> faults, failed |-> r.failed,
                                           assignments |-> r.assignments,
                                           grades |-> r.grades])
            /\ emitted' = emitted (+) SetToBag({f})
    /\ fetchers' = fetchers \ {f}
    /\ UNCHANGED <<now, remote, notification_times, assignments_by_course,
                   grades_by_course, published, next_fetcher, loops, sent, last_scan>>
DataFetcherRun(f, faults) ==
    /\ f \in fetchers
    /\ LET r == Run(remote, now, faults) IN
       signals' = Append(signals, [fetcher |-> f, courses |-> remote, now |-> now,
                                   faults |-> faults, failed |-> r.failed,
                                   assignments |-> r.assignments, grades |-> r.grades])
    /\ emitted' = emitted (+) SetToBag({f})
    /\ fetchers' = fetchers \ {f}
    /\ UNCHANGED <<now, remote, notification_times, assignments_by_course,
                   grades_by_course, published, next_fetcher, loops, sent, last_scan>>

\* lines 325-327, 330: a new check_due_assignments thread, about to scan
NewLoop == [pc |-> "scan", wake |-> 0, notified |-> {}, cycle |-> 0, fetch |-> 0]
StartNotificationThread(ls) == Append(ls, NewLoop)

\* lines 235-240: the main thread handles the oldest queued data_fetched
OnDataFetchedAssignmentsOnly ==
    /\ signals # <<>>
    /\ assignments_by_course' = Head(signals).assignments
    /\ published' = [fetcher |-> Head(signals).fetcher,
                      failures |-> IF Head(signals).failed THEN published.failures + 1 ELSE 0,
                      courses |-> Head(signals).courses, now |-> Head(signals).now,
                      faults |-> Head(signals).faults]
    /\ signals' = Tail(signals)
    /\ loops' = StartNotificationThread(loops)
    /\ UNCHANGED <<emitted, now, remote, notification_times, grades_by_course, fetchers,
                   next_fetcher, sent, last_scan>>
OnDataFetched ==
    /\ signals # <<>>
    /\ assignments_by_course' = Head(signals).assignments
    /\ grades_by_course' = Head(signals).grades
    /\ published' = [fetcher |-> Head(signals).fetcher,
                      failures |-> IF Head(signals).failed THEN published.failures + 1 ELSE 0,
                      courses |-> Head(signals).courses, now |-> Head(signals).now,
                      faults |-> Head(signals).faults]
    /\ signals' = Tail(signals)
    /\ loops' = StartNotificationThread(loops)
    /\ UNCHANGED <<emitted, now, remote, notification_times, fetchers, next_fetcher, sent,
                   last_scan>>

\* lines 332-345: loop t scans the application's map and goes to sleep
CheckDueAssignmentsMarking(t) ==
    /\ t \in 1..Len(loops)
    /\ loops[t].pc = "scan"
    /\ LET st == Scan(assignments_by_course, now, notification_times, loops[t].notified)
           shown == {[course |-> st.events[k].course, name |-> st.events[k].name,
                      h |-> st.events[k].h] : k \in 1..Len(st.events)}
           marked == {st.events[k].pos : k \in 1..Len(st.events)}
       IN  /\ loops' = [loops EXCEPT ![t].pc = "sleep",
                                     ![t].wake = now + SleepHours,
                                     ![t].notified = st.notified,
                                     ![t].cycle = @ + 1]
           /\ sent' = sent (+) SetToBag(shown)
           /\ last_scan' = [loop |-> t, cycle |-> loops[t].cycle + 1,
                            fetch |-> loops[t].fetch, published |-> published.fetcher,
                            abc |-> assignments_by_course, now |-> now,
                            times |-> notification_times,
                            before |-> loops[t].notified, events |-> st.events]
           /\ assignments_by_course' =
                  [e \in 1..Len(assignments_by_course) |->
                      [assignments_by_course[e] EXCEPT !.value =
                          [k \in 1..Len(assignments_by_course[e].value) |->
                              IF <<e, k>> \in marked
                              THEN [assignments_by_course[e].value[k] EXCEPT !.submitted = TRUE]
                              ELSE assignments_by_course[e].value[k]]]]
    /\ UNCHANGED <<emitted, now, remote, notification_times, grades_by_course, published,
                   fetchers, next_fetcher, signals>>
CheckDueAssignments(t) ==
    /\ t \in 1..Len(loops)
    /\ loops[t].pc = "scan"
    /\ LET st == Scan(assignments_by_course, now, notification_times, loops[t].notified)
           shown == {[course |-> st.events[k].course, name |-> st.events[k].name,
                      h |-> st.events[k].h] : k \in 1..Len(st.events)}
       IN  /\ loops' = [loops EXCEPT ![t].pc = "sleep",
                                     ![t].wake = now + SleepHours,
                                     ![t].notified = st.notified,
                                     ![t].cycle = @ + 1]
           /\ sent' = sent (+) SetToBag(shown)
           /\ last_scan' = [loop |-> t, cycle |-> loops[t].cycle + 1,
                            fetch |-> loops[t].fetch, published |-> published.fetcher,
                            abc |-> assignments_by_course, now |-> now,
                            times |-> notification_times,
                            before |-> loops[t].notified, events |-> st.events]
    /\ UNCHANGED <<emitted, now, remote, notification_times, assignments_by_course,
                   grades_by_course, published, fetchers, next_fetcher, signals>>

\* lines 345-346, 230-233: loop t wakes up and starts a DataFetcher
StartDataThreadIfData(t) ==
    /\ t \in 1..Len(loops)
    /\ loops[t].pc = "sleep"
    /\ loops[t].wake <= now
    /\ assignments_by_course # EmptyDict
    /\ fetchers' = fetchers \cup {next_fetcher}
    /\ next_fetcher' = next_fetcher + 1
    /\ loops' = [loops EXCEPT ![t].pc = "scan", ![t].fetch = next_fetcher]
    /\ UNCHANGED <<emitted, now, remote, notification_times, assignments_by_course,
                   grades_by_course, published, signals, sent, last_scan>>
StartDataThread(t) ==
    /\ t \in 1..Len(loops)
    /\ loops[t].pc = "sleep"
    /\ loops[t].wake <= now
    /\ fetchers' = fetchers \cup {next_fetcher}
    /\ next_fetcher' = next_fetcher + 1
    /\ loops' = [loops EXCEPT ![t].pc = "scan", ![t].fetch = next_fetcher]
    /\ UNCHANGED <<emitted, now, remote, notification_times, assignments_by_course,
                   grades_by_course, published, signals, sent, last_scan>>

Next ==
    \/ Tick
    \/ \E i \in 1..Len(remote) : \E j \in 1..Len(remote[i].assignments) : Submit(i, j)
    \/ \E f \in fetchers : \E faults \in SchedFaults : DataFetcherRun(f, faults)
    \/ OnDataFetched
    \/ \E t \in 1..Len(loops) : CheckDueAssignments(t)
    \/ \E t \in 1..Len(loops) : StartDataThread(t)

Spec == Init /\ [][Next]_vars

\* The threads are scheduled and time passes: every loop that can scan or wake
\* up does, and the main thread handles its queue.  A fetch may hang.  The
\* remote has one course with one assignment.
LoopIds == 1..(2 ^ MaxTime)
FairInit ==
    /\ remote \in {<<SchedCourse(1, <<a>>)>> : a \in SchedAssignments({"X"})}
    /\ notification_times = <<12>>
    /\ InitApp
FairSpec ==
    /\ FairInit /\ [][Next]_vars
    /\ WF_vars(Tick)
    /\ WF_vars(OnDataFetched)
    /\ \A t \in LoopIds : WF_vars(CheckDueAssignments(t)) /\ WF_vars(StartDataThread(t))

\* The fetcher alone, on the remotes and under the faults of the fetcher.
FetchInit ==
    /\ remote \in FetchRemotes
    /\ notification_times = <<12>>
    /\ InitApp

FetchNext ==
    \/ Tick
    \/ \E f \in fetchers : \E faults \in FetchFaults(remote) : DataFetcherRun(f, faults)
    \/ OnDataFetched

FetchSpec == FetchInit /\ [][FetchNext]_vars

\* The application refreshing against one course with one assignment, dated at
\* and around the bounds of the two date tests.
RefetchEnds == {NoneVal, Some(0), Some(1)}
RefetchDues == {0, 10, LookaheadHours}
RefetchRemotes ==
    {<<Course(CourseNames[1], NoneVal, e,
              <<Assignment("X", Some(d), FALSE, Some(10))>>, "90")>> :
        e \in RefetchEnds, d \in RefetchDues}
RefetchInit ==
    /\ remote \in RefetchRemotes
    /\ notification_times = <<12>>
    /\ InitApp
RefetchSpec == RefetchInit /\ [][Next]_vars


\* ------------------------------------------------------------------ claims
\* What the claims say of a fetch, stated on the remote's data.

\* The course is inside its date bounds at time t.
Surviving(course, t) ==
    /\ IsNone(course.start_at) \/ t - Val(course.start_at) <= 150 * 24
    /\ IsNone(course.end_at) \/ Val(course.end_at) >= t

\* The positions of the course's assignments due in [t, t + 90 days], in order.
WindowPositions(course, t) ==
    SelectSeq([j \in 1..Len(course.assignments) |-> j],
              LAMBDA j : /\ course.assignments[j].due_at # NoneVal
                         /\ t <= course.assignments[j].due_at[1]
                         /\ course.assignments[j].due_at[1] <= t + 90 * 24)

\* The fetch of the courses at time t meets an unhandled failure.
Fails(courses, t, faults) ==
    \/ faults.kind = "setup"
    \/ /\ faults.kind = "parse_course"
       /\ courses[faults.at].start_at # NoneVal \/ courses[faults.at].end_at # NoneVal
    \/ /\ faults.kind = "list_assignments"
       /\ Surviving(courses[faults.at], t)

Signals == {signals[k] : k \in 1..Len(signals)}

\* C1: no (course name, assignment name, threshold) is notified more than once
\* in the lifetime of the process.
C1_NotifiedAtMostOnce ==
    \A e \in BagToSet(sent) : CopiesIn(e, sent) <= 1

\* C2: at most one check_due_assignments loop is alive at any moment.
C2_SingleSchedulerLoop ==
    Len(loops) <= 1

\* C3: a scan of a cycle that re-ran the fetch reads the map that fetch (or a
\* later one) published, and so never notifies an assignment the remote reported
\* as submitted when the cycle's fetch was started.
C3_ScanReadsCycleFetch ==
    last_scan.fetch # 0 => last_scan.published >= last_scan.fetch

\* C4: a fetch that meets an unhandled failure publishes two empty maps.
C4_FailedFetchIsEmpty ==
    \A s \in Signals :
        Fails(s.courses, s.now, s.faults) =>
            s.assignments = EmptyDict /\ s.grades = EmptyDict

\* C4 witness: the failure came at the second course, after the first course
\* had been collected, and the emitted maps are empty.
C4_Witness ==
    \E s \in Signals :
        /\ Len(s.courses) = 2 /\ s.faults.at = 2
        /\ Fails(s.courses, s.now, s.faults)
        /\ Surviving(s.courses[1], s.now)
        /\ WindowPositions(s.courses[1], s.now) # <<>>
        /\ s.assignments = EmptyDict /\ s.grades = EmptyDict

\* C6: after a fetch without unhandled failure, a surviving course with
\* assignments due in [now, now + 90 days] is mapped to exactly those, in the
\* remote's order, and no list of the map holds an assignment due outside the
\* window.
C6_ListIsWindow ==
    \A s \in Signals :
        ~Fails(s.courses, s.now, s.faults) =>
            /\ \A i \in 1..Len(s.courses) :
                   LET course == s.courses[i]
                       window == WindowPositions(course, s.now)
                   IN  Surviving(course, s.now) /\ window # <<>> =>
                           /\ course.name \in DictKeys(s.assignments)
                           /\ LET list == DictGet(s.assignments, course.name) IN
                              /\ Len(list) = Len(window)
                              /\ \A k \in 1..Len(window) :
                                     /\ list[k].name = course.assignments[window[k]].name
                                     /\ list[k].due_at = course.assignments[window[k]].due_at[1]
            /\ \A e \in 1..Len(s.assignments) :
                   \A k \in 1..Len(s.assignments[e].value) :
                       /\ s.now <= s.assignments[e].value[k].due_at
                       /\ s.assignments[e].value[k].due_at <= s.now + 90 * 24

\* C6 witness: a list that keeps an assignment due exactly at now + 90 days and
\* one due exactly now, of a course that also has an assignment without due date.
C6_Witness ==
    \E s \in Signals : \E i \in 1..Len(s.courses) :
        /\ ~Fails(s.courses, s.now, s.faults)
        /\ s.courses[i].name \in DictKeys(s.assignments)
        /\ \E j \in 1..Len(s.courses[i].assignments) :
               s.courses[i].assignments[j].due_at = NoneVal
        /\ \E k \in 1..Len(DictGet(s.assignments, s.courses[i].name)) :
               DictGet(s.assignments, s.courses[i].name)[k].due_at \in {s.now, s.now + 90 * 24}

\* C7: a course that ended before now or started more than 150 days ago is in
\* neither map; a course with no start date or no end date, inside the bound it
\* has, and with assignments in the window is in the assignments map of a fetch
\* without unhandled failure.
C7_CourseDateFilter ==
    \A s \in Signals : \A i \in 1..Len(s.courses) :
        LET course == s.courses[i] IN
        /\ ~Surviving(course, s.now) =>
               /\ course.name \notin DictKeys(s.assignments)
               /\ course.name \notin DictKeys(s.grades)
        /\ /\ IsNone(course.start_at) \/ IsNone(course.end_at)
           /\ Surviving(course, s.now)
           /\ WindowPositions(course, s.now) # <<>>
           /\ ~Fails(s.courses, s.now, s.faults)
           => course.name \in DictKeys(s.assignments)

\* C7 witness: a course that ended an hour ago, with an assignment in the
\* window, is absent from maps that hold another course.
C7_Witness ==
    \E s \in Signals : \E i \in 1..Len(s.courses) :
        /\ s.courses[i].end_at # NoneVal
        /\ s.courses[i].end_at[1] < s.now
        /\ WindowPositions(s.courses[i], s.now) # <<>>
        /\ s.courses[i].name \notin DictKeys(s.assignments)
        /\ s.assignments # EmptyDict
        /\ s.grades # EmptyDict

\* C8: when no unhandled failure is met, an in-window assignment whose
\* submission lookup raises is in its course's list with submitted = FALSE, and
\* the list and the map are as long as without the failure.
C8_SubmissionLookupFailOpen ==
    \A s \in Signals :
        s.faults.kind = "none" =>
            /\ ~s.failed
            /\ \A i \in 1..Len(s.courses) :
                   LET course == s.courses[i]
                       window == WindowPositions(course, s.now)
                   IN  Surviving(course, s.now) /\ window # <<>> =>
                           /\ course.name \in DictKeys(s.assignments)
                           /\ Len(DictGet(s.assignments, course.name)) = Len(window)
                           /\ \A k \in 1..Len(window) :
                                  LET r == DictGet(s.assignments, course.name)[k] IN
                                  /\ r.name = course.assignments[window[k]].name
                                  /\ <<i, window[k]>> \in s.faults.sub => ~r.submitted
                                  /\ <<i, window[k]>> \notin s.faults.sub =>
                                         r.submitted = course.assignments[window[k]].submitted_at

\* C8 witness: the lookup raised for the first assignment of the first course,
\* which the remote has as submitted; it is listed as not submitted, and the
\* second course is in the map too.
C8_Witness ==
    \E s \in Signals :
        /\ <<1, 1>> \in s.faults.sub
        /\ s.courses[1].assignments[1].submitted_at
        /\ Len(s.assignments) = 2
        /\ s.assignments[1].key = s.courses[1].name
        /\ s.assignments[1].value[1].name = s.courses[1].assignments[1].name
        /\ ~s.assignments[1].value[1].submitted

\* What the claims say of a scan, stated on the scanned map.
ScanPositions(abc) ==
    UNION {{<<i, j>> : j \in 1..Len(abc[i].value)} : i \in 1..Len(abc)}
ScannedAt(abc, p) == abc[p[1]].value[p[2]]
\* The assignment at p is not submitted and due in more than 0 and at most h hours.
Qualifies(abc, t, p, h) ==
    /\ ~ScannedAt(abc, p).submitted
    /\ 0 < ScannedAt(abc, p).due_at - t
    /\ ScannedAt(abc, p).due_at - t <= h
KeyAt(abc, p, h) == Key(abc[p[1]].key, ScannedAt(abc, p).name, h)
Before(p, q) == p[1] < q[1] \/ (p[1] = q[1] /\ p[2] < q[2])
EventsFor(events, p, h) == {k \in 1..Len(events) : events[k].pos = p /\ events[k].h = h}
Thresholds(times) == {times[k] : k \in 1..Len(times)}

LoopDueAfterFailure(t, n) ==
    IF t > Len(loops) THEN FALSE
    ELSE /\ published.failures >= 1
         /\ loops[t].cycle = n
         /\ loops[t].pc = "scan" \/ loops[t].wake <= MaxTime
LoopScannedAgain(t, n) ==
    IF t > Len(loops) THEN FALSE
    ELSE loops[t].cycle > n /\ loops[t].pc = "sleep"

\* C5: a loop that has scanned n times while failed fetches were being
\* published, and whose next cycle starts within the model's time, scans again:
\* it wakes up, starts another fetch and completes another scan.
C5_LoopSurvivesFailedFetches ==
    \A t \in LoopIds : \A n \in 0..(MaxTime + 1) :
        LoopDueAfterFailure(t, n) ~> LoopScannedAgain(t, n)

\* C5 witness: two failed fetches in a row were published, the second one
\* started by a loop in its second cycle, which then scanned the empty map.
C5_Witness ==
    /\ published.failures >= 2
    /\ last_scan.cycle >= 2
    /\ last_scan.fetch = published.fetcher
    /\ last_scan.published = published.fetcher
    /\ last_scan.abc = EmptyDict
    /\ loops[last_scan.loop].pc = "sleep"

\* C9: in a scan, an unsubmitted assignment with 0 < hours_remaining <= h, for
\* a configured threshold h whose key is neither recorded before the scan nor
\* taken by an earlier assignment of the scan, is notified exactly once for h.
C9_EveryThresholdFires ==
    \A p \in ScanPositions(last_scan.abc) : \A h \in Thresholds(last_scan.times) :
        (/\ Qualifies(last_scan.abc, last_scan.now, p, h)
         /\ KeyAt(last_scan.abc, p, h) \notin last_scan.before
         /\ \A q \in ScanPositions(last_scan.abc) :
                Before(q, p) /\ Qualifies(last_scan.abc, last_scan.now, q, h)
                    => KeyAt(last_scan.abc, q, h) # KeyAt(last_scan.abc, p, h))
        => Cardinality(EventsFor(last_scan.events, p, h)) = 1

\* C9 witness: with thresholds 6 and 12, an assignment due in 5 hours was
\* notified for 6 and for 12 in one scan.
C9_Witness ==
    /\ last_scan.times = <<6, 12>>
    /\ \E p \in ScanPositions(last_scan.abc) :
           /\ ScannedAt(last_scan.abc, p).due_at - last_scan.now = 5
           /\ EventsFor(last_scan.events, p, 6) # {}
           /\ EventsFor(last_scan.events, p, 12) # {}

\* C10: every notification of a scan is for a configured threshold h and an
\* assignment of the scanned map that is not submitted and has
\* 0 < hours_remaining <= h.
C10_OnlyDueUnsubmittedNotified ==
    \A k \in 1..Len(last_scan.events) :
        LET e == last_scan.events[k] IN
        /\ e.h \in Thresholds(last_scan.times)
        /\ e.pos \in ScanPositions(last_scan.abc)
        /\ e.course = ScannedAt(last_scan.abc, e.pos).course
        /\ e.name = ScannedAt(last_scan.abc, e.pos).name
        /\ Qualifies(last_scan.abc, last_scan.now, e.pos, e.h)

\* C10 witness: a scan that notified one assignment and passed over another,
\* unsubmitted and overdue.
C10_Witness ==
    /\ last_scan.events # <<>>
    /\ \E p \in ScanPositions(last_scan.abc) :
           /\ ~ScannedAt(last_scan.abc, p).submitted
           /\ ScannedAt(last_scan.abc, p).due_at - last_scan.now <= 0
           /\ \A k \in 1..Len(last_scan.events) : last_scan.events[k].pos # p

\* C11: no course of an emitted or published assignments map is mapped to an
\* empty list, and after a fetch without unhandled failure a course none of
\* whose assignments is due in the window is a key of neither map.
C11_NoEmptyList ==
    /\ \A e \in 1..Len(assignments_by_course) : assignments_by_course[e].value # <<>>
    /\ \A s \in Signals :
           /\ \A e \in 1..Len(s.assignments) : s.assignments[e].value # <<>>
           /\ ~Fails(s.courses, s.now, s.faults) =>
                  \A i \in 1..Len(s.courses) :
                      WindowPositions(s.courses[i], s.now) = <<>> =>
                          /\ s.courses[i].name \notin DictKeys(s.assignments)
                          /\ s.courses[i].name \notin DictKeys(s.grades)

\* C11 witness: a course inside its dates whose assignments are all dated
\* outside the window is absent from both maps, next to a course that is kept.
C11_Witness ==
    \E s \in Signals :
        /\ ~Fails(s.courses, s.now, s.faults)
        /\ Len(s.courses) = 2
        /\ Surviving(s.courses[1], s.now)
        /\ \E j \in 1..Len(s.courses[1].assignments) :
               s.courses[1].assignments[j].due_at # NoneVal
        /\ WindowPositions(s.courses[1], s.now) = <<>>
        /\ s.courses[1].name \notin DictKeys(s.assignments)
        /\ s.courses[1].name \notin DictKeys(s.grades)
        /\ s.courses[2].name \in DictKeys(s.assignments)

\* C12: the two maps the application holds are the initial empty maps or the
\* complete maps one finished fetch emitted, both of the same fetch; a fetch
\* that is running or whose signal is still queued has changed neither.
C12_MapsOfOneFetch ==
    IF published.fetcher = 0
    THEN assignments_by_course = EmptyDict /\ grades_by_course = EmptyDict
    ELSE LET r == Run(published.courses, published.now, published.faults) IN
         /\ assignments_by_course = r.assignments
         /\ grades_by_course = r.grades

\* C12 witness: the application holds the maps of the first fetch while a
\* later fetch has finished with other maps that are not handled yet.
C12_Witness ==
    /\ published.fetcher = 1
    /\ assignments_by_course # EmptyDict
    /\ grades_by_course # EmptyDict
    /\ \E s \in Signals :
           /\ s.fetcher > 1 /\ ~s.failed
           /\ s.assignments # assignments_by_course

\* C13: when the enrollment lookup of a kept course raises, the fetch goes on
\* without unhandled failure: the grades map records "N/A" for that course, its
\* assignment list is in the assignments map, and the courses after it are
\* collected as well.
C13_GradeFailureIsNotAvailable ==
    \A s \in Signals :
        s.faults.kind = "none" =>
            /\ ~s.failed
            /\ \A i \in 1..Len(s.courses) :
                   /\ Surviving(s.courses[i], s.now)
                   /\ WindowPositions(s.courses[i], s.now) # <<>>
                   => /\ s.courses[i].name \in DictKeys(s.assignments)
                      /\ Len(DictGet(s.assignments, s.courses[i].name))
                             = Len(WindowPositions(s.courses[i], s.now))
                      /\ i \in s.faults.grade =>
                             /\ s.courses[i].name \in DictKeys(s.grades)
                             /\ DictGet(s.grades, s.courses[i].name) = "N/A"

\* C13 witness: the enrollment lookup of the first course, which has a score,
\* raised; the course is in both maps with "N/A", and so is the second course
\* with its score.
C13_Witness ==
    \E s \in Signals :
        /\ s.faults.kind = "none" /\ s.faults.grade = {1}
        /\ Len(s.courses) = 2
        /\ s.courses[1].enrollment = "90"
        /\ s.courses[1].name \in DictKeys(s.assignments)
        /\ DictGet(s.assignments, s.courses[1].name) # <<>>
        /\ s.courses[1].name \in DictKeys(s.grades)
        /\ DictGet(s.grades, s.courses[1].name) = "N/A"
        /\ s.courses[2].name \in DictKeys(s.grades)
        /\ DictGet(s.grades, s.courses[2].name) = "90"

\* C14: after a fetch without unhandled failure, an assignment due in the window
\* whose submission lookup reported it submitted is in its course's list with
\* submitted = TRUE (so a course whose only in-window assignment is submitted is
\* in the map), and a scan sends no notification for a record with
\* submitted = TRUE.
C14_SubmittedKeptButSkipped ==
    /\ \A s \in Signals :
           ~Fails(s.courses, s.now, s.faults) =>
               \A i \in 1..Len(s.courses) :
                   LET course == s.courses[i]
                       window == WindowPositions(course, s.now)
                   IN  \A k \in 1..Len(window) :
                           /\ Surviving(course, s.now)
                           /\ course.assignments[window[k]].submitted_at
                           /\ <<i, window[k]>> \notin s.faults.sub
                           => /\ course.name \in DictKeys(s.assignments)
                              /\ Len(DictGet(s.assignments, course.name)) = Len(window)
                              /\ DictGet(s.assignments, course.name)[k].submitted
    /\ \A p \in ScanPositions(last_scan.abc) :
           ScannedAt(last_scan.abc, p).submitted =>
               \A k \in 1..Len(last_scan.events) : last_scan.events[k].pos # p

\* C14 witness: a scan read a map with a course whose only record is submitted
\* and due within a threshold, and sent nothing for it.
C14_Witness ==
    /\ last_scan.loop # 0
    /\ \E e \in 1..Len(last_scan.abc) :
           /\ Len(last_scan.abc[e].value) = 1
           /\ last_scan.abc[e].value[1].submitted
           /\ \E h \in Thresholds(last_scan.times) :
                  /\ 0 < last_scan.abc[e].value[1].due_at - last_scan.now
                  /\ last_scan.abc[e].value[1].due_at - last_scan.now <= h
           /\ \A k \in 1..Len(last_scan.events) : last_scan.events[k].pos[1] # e

\* The fetch of signal s and the fetch whose maps the application holds saw the
\* same remote state.
SameRemote(s) == published.fetcher # 0 /\ s.courses = published.courses

\* No date bound was crossed between the two fetches: the same courses are
\* inside their dates and the same assignments are due in the window.
SameWindow(s) ==
    \A i \in 1..Len(s.courses) :
        /\ Surviving(s.courses[i], s.now) <=> Surviving(s.courses[i], published.now)
        /\ WindowPositions(s.courses[i], s.now)
               = WindowPositions(s.courses[i], published.now)

\* C15: a fetch of the remote state the published fetch saw emits an
\* assignments map with the same (course, name, due date, submitted, points)
\* records and the same grades map.
C15_FetchIdempotent ==
    \A s \in Signals :
        SameRemote(s) =>
            /\ s.assignments = assignments_by_course
            /\ s.grades = grades_by_course

\* C15, amended: two fetches of the same remote state that meet the same
\* failures and between which no due date or course date bound is crossed emit
\* equal assignments maps and equal grades maps.
C15_FetchIdempotentInWindow ==
    \A s \in Signals :
        SameRemote(s) /\ s.faults = published.faults /\ SameWindow(s) =>
            /\ s.assignments = assignments_by_course
            /\ s.grades = grades_by_course

\* C15 witness: a fetch an hour after the published one, of the same remote
\* state, emitted the same non-empty maps.
C15_Witness ==
    \E s \in Signals :
        /\ SameRemote(s) /\ s.faults = published.faults /\ SameWindow(s)
        /\ s.now > published.now
        /\ s.assignments # EmptyDict
        /\ s.assignments = assignments_by_course
        /\ s.grades = grades_by_course

\* C16: no step changes a record or an entry of the maps the application
\* holds, a scan least of all; the two maps change only in the step that handles
\* a data_fetched signal, which replaces both by the maps of the signal.
C16_SnapshotImmutable ==
    [][/\ last_scan' # last_scan =>
              UNCHANGED <<assignments_by_course, grades_by_course>>
       /\ <<assignments_by_course, grades_by_course>>'
              # <<assignments_by_course, grades_by_course>> =>
              /\ signals # <<>>
              /\ signals' = Tail(signals)
              /\ assignments_by_course' = Head(signals).assignments
              /\ grades_by_course' = Head(signals).grades]_vars

\* C16 witness: a scan has sent notifications for records of the published
\* map, and the application still holds the map as it was published.
C16_Witness ==
    /\ last_scan.loop # 0
    /\ last_scan.events # <<>>
    /\ last_scan.published = published.fetcher
    /\ assignments_by_course = last_scan.abc
    /\ assignments_by_course
           = Run(published.courses, published.now, published.faults).assignments

\* C17: after a fetch without unhandled failure the grades map has exactly the
\* course keys of the assignments map.
C17_GradesKeysAreAssignmentsKeys ==
    \A s \in Signals :
        ~s.failed => DictKeys(s.grades) = DictKeys(s.assignments)

\* The records at positions p and q differ in course name or assignment name.
Distinct(abc, p, q) ==
    <<abc[p[1]].key, ScannedAt(abc, p).name>> # <<abc[q[1]].key, ScannedAt(abc, q).name>>

\* C18: in the first scan of a loop, every unsubmitted record with
\* 0 < hours remaining <= h whose (course name, assignment name) no other
\* record of the map has is notified for h, whatever other records were
\* notified before it in the scan.
C18_KeysSeparateAssignments ==
    last_scan.before = {} =>
        \A p \in ScanPositions(last_scan.abc) :
            \A h \in Thresholds(last_scan.times) :
                /\ Qualifies(last_scan.abc, last_scan.now, p, h)
                /\ \A q \in ScanPositions(last_scan.abc) \ {p} :
                       Distinct(last_scan.abc, p, q)
                => EventsFor(last_scan.events, p, h) # {}

\* C19: every DataFetcher that was started and has finished emitted
\* data_fetched exactly once, and one that is running has not emitted yet; every
\* emitted signal is in the queue or was handled once; a signal carries two
\* empty maps if the fetch met an unhandled failure and the maps with every
\* course that has assignments in the window otherwise.
C19_OneSnapshotPerFetch ==
    /\ \A f \in 1..(next_fetcher - 1) :
           CopiesIn(f, emitted) = IF f \in fetchers THEN 0 ELSE 1
    /\ BagToSet(emitted) \subseteq 1..(next_fetcher - 1)
    /\ BagCardinality(emitted) = Len(signals) + Len(loops)
    /\ \A k \in 1..Len(signals) : \A n \in 1..Len(signals) :
           signals[k].fetcher = signals[n].fetcher => k = n
    /\ \A s \in Signals :
           /\ s.failed <=> Fails(s.courses, s.now, s.faults)
           /\ s.failed => s.assignments = EmptyDict /\ s.grades = EmptyDict
           /\ ~s.failed =>
                  \A i \in 1..Len(s.courses) :
                      /\ Surviving(s.courses[i], s.now)
                      /\ WindowPositions(s.courses[i], s.now) # <<>>
                      => s.courses[i].name \in DictKeys(s.assignments)

\* C19 witness: two fetches were started and have finished; the first one
\* published its maps, the second one failed and its one signal with two empty
\* maps is in the queue.
C19_Witness ==
    /\ next_fetcher = 3 /\ fetchers = {}
    /\ CopiesIn(1, emitted) = 1 /\ CopiesIn(2, emitted) = 1
    /\ published.fetcher = 1 /\ assignments_by_course # EmptyDict
    /\ Len(signals) = 1
    /\ signals[1].fetcher = 2 /\ signals[1].failed
    /\ signals[1].assignments = EmptyDict /\ signals[1].grades = EmptyDict
====
